---- MODULE Spec2Model ----
(***************************************************************************)
(* Key Vault storage-account samples: util.py (KeyVaultSampleBase,         *)
(* keyvaultsample), storage_account_sample.py, sas_definition_sample.py    *)
(* and run_sample.py, as a state machine.                                  *)
(*                                                                         *)
(* The program is single threaded.  One action of the model is one call    *)
(* made by the process's top level (a constructor, a decorated sample      *)
(* step, a public helper); it runs the whole call, nested calls included.  *)
(* Every request to an external service made during the call is appended   *)
(* to `calls`, in program order, with the credential it was made under and *)
(* its outcome.  An external request may fail: the oracle `failAt` names   *)
(* the request of the call that raises (0: none does).                     *)
(*                                                                         *)
(* storage_account_sample.py imports its base class from a module          *)
(* `key_vault_sample_base` that is not among the sources.  The attributes  *)
(* its methods read from `self` and that no source file defines (config,   *)
(* auth_context, vault, keyvault_client, keyvault_mgmt_client,             *)
(* authorization_mgmt_client) are modelled from the specification; they    *)
(* are the definitions whose names start with sa_.                         *)
(***************************************************************************)
EXTENDS Integers, Sequences, FiniteSets, TLC

\* ------------------------------------------------------------------ bounds
MaxFails == 1        \* external failures injected in one behaviour
MaxPolicies == 2     \* longest access-policy list of a vault
MaxKeyVersion == 1   \* regenerations of one storage-account key
MaxGranted == 2      \* entries grant_access_to_sample_vault appends to one Vault object

\* ------------------------------------------------------------------ values
None == "None"
Configs == {"c1", "c2"}                 \* SampleConfig objects
Insts == {"sa", "sas"}                  \* sample objects
Threads == {"t1", "t2"}                 \* threads of the process
Users == {"u1", "u2"}                   \* users who may complete a device login
Names == {"sa1", "sa2"}                 \* storage account names
VaultNames == {"kvnamed", "kvrand"}     \* AZURE_VAULT_NAME / get_name('vault')
KeyNames == {"key1", "key2"}
MgmtResource == "https://management.core.windows.net/"
VaultResource == "https://vault.azure.net"
Resources == {MgmtResource, VaultResource}
ClientOid == "sp_oid"                   \* AZURE_CLIENT_OID
OidOf(u) == IF u = "u1" THEN "oid_u1" ELSE "oid_u2"   \* token['objectId']

SampleClass(i) == IF i = "sa" THEN "StorageAccountSample" ELSE "SasDefinitionSample"

NoExc == [type |-> "None", at |-> "-"]
NoRet == [kind |-> "none", id |-> 0, user |-> None]
NoVault == [id |-> 0, name |-> None, access_policies |-> <<>>]
AllPerms == "all"
Policy(oid, perms) == [object_id |-> oid, permissions |-> perms]
\* The areas a Permissions object grants anything in: every area for the
\* service principal's entry, storage alone for Permissions(storage=[set]).
Areas(perms) ==
    IF perms = AllPerms THEN {"keys", "secrets", "certificates", "storage"}
    ELSE IF perms = "storage_set" THEN {"storage"} ELSE {}

\* ------------------------------------------------------------------ state
VARIABLES
    setup_complete,   \* KeyVaultSampleBase._setup_complete (class attribute)
    cfg,              \* the SampleConfig objects' mutable fields
    inst,             \* the sample objects' fields (config = None: not constructed)
    env,              \* the process environment read by SampleConfig.__init__
    vaults,           \* key vaults as persisted by the management service
    managed,          \* storage accounts as registered with each vault
    storage,          \* cloud storage accounts, their role assignment and keys
    sas_definitions,  \* SAS definitions held by the vaults
    containers,       \* blob containers of the storage accounts and their blobs
    performed,        \* setup requests issued so far, per setup action
    nextRef,          \* identity of the next Vault object a management call returns
    fails,            \* external failures injected so far
    op,               \* the last top-level call
    calls,            \* the external requests the last call issued, in order
    exc,              \* the exception the last call raised to its caller
    ret,              \* the value the last call returned
    bodyRuns,         \* how often the decorated body ran during the last call
    bodyExc,          \* the exception the decorated body raised during the last call
    started,          \* the steps run_all_samples started during the last call, in order
    threads,          \* the statement each thread of the process is at
    overlapped        \* whether a thread started while another was inside a call

vars == <<setup_complete, cfg, inst, env, vaults, managed, storage,
          sas_definitions, containers, performed,
          nextRef, fails, op, calls, exc, ret, bodyRuns, bodyExc, started,
          threads, overlapped>>

SetupActions == {"register:Microsoft.KeyVault", "register:Microsoft.Storage",
                 "resource_groups.create_or_update"}

\* The state as a record, threaded through the operators below.  `o` is the
\* environment's oracle for the call being run.
Cur(o, name, i, arg) ==
    [setup_complete |-> setup_complete, cfg |-> cfg, inst |-> inst, env |-> env,
     vaults |-> vaults, managed |-> managed, storage |-> storage,
     sas_definitions |-> sas_definitions, containers |-> containers,
     performed |-> performed, nextRef |-> nextRef,
     op |-> [name |-> name, inst |-> i, arg |-> arg],
     calls |-> <<>>, exc |-> NoExc, ret |-> NoRet, bodyRuns |-> 0,
     bodyExc |-> NoExc, started |-> <<>>, o |-> o,
     listed |-> <<>>,     \* local: the items a listing returned
     token |-> None]      \* local: the SAS token read from the vault

Injected(s) == \E k \in 1..Len(s.calls) : s.calls[k].result = "raise" /\ k = s.o.failAt

\* The oracle is read only where the call consults it: an oracle that differs
\* from another in a part the call never read describes the same execution,
\* and only one of the two is kept.
Consulted(s, api, results) ==
    \E k \in 1..Len(s.calls) : s.calls[k].api = api /\ s.calls[k].result \in results
Effective(s) ==
    /\ s.o.failAt = 0 \/ s.o.failAt <= Len(s.calls)
    /\ Consulted(s, "acquire_token", {"ok", "none"}) \/ s.o.silent = "token"
    /\ Consulted(s, "acquire_token_with_device_code", {"ok"}) \/ s.o.user = "u1"
    /\ Consulted(s, "role_definitions.list", {"ok"}) \/ s.o.found
    /\ (s.op.name = "add_storage_account" /\ s.bodyRuns > 0) \/ s.o.name = "sa1"

Assign(s0) ==
    \E s \in {s0} :
        /\ Effective(s) = TRUE
        /\ setup_complete' = s.setup_complete
        /\ cfg' = s.cfg
        /\ inst' = s.inst
        /\ env' = s.env
        /\ vaults' = s.vaults
        /\ managed' = s.managed
        /\ storage' = s.storage
        /\ sas_definitions' = s.sas_definitions
        /\ containers' = s.containers
        /\ performed' = s.performed
        /\ nextRef' = s.nextRef
        /\ fails' = IF Injected(s) THEN fails + 1 ELSE fails
        /\ op' = s.op
        /\ calls' = s.calls
        /\ exc' = s.exc
        /\ ret' = s.ret
        /\ bodyRuns' = s.bodyRuns
        /\ bodyExc' = s.bodyExc
        /\ started' = s.started

\* A call made by the only thread of the process.
Commit(s0) == Assign(s0) /\ UNCHANGED <<threads, overlapped>>

\* ------------------------------------------------------------------ helpers
\* The value of a singleton set.  { e(x) : x \in {a} } evaluates a once and
\* names its value x: the operators below sequence their steps this way.
Val(S) == CHOOSE x \in S : TRUE

Raised(s) == s.exc # NoExc
Raise(s, t, where) == [s EXCEPT !.exc = [type |-> t, at |-> where]]

\* An external request: its API, the credential of the client it goes through,
\* the vault URL it addresses, the entity it names and a further argument.
Req(api, cred, url, name, arg) ==
    [api |-> api, cred |-> cred, url |-> url, name |-> name, arg |-> arg]

\* Issue request r, unless an exception is already propagating.  The request
\* raises when the oracle says so, or when the service must refuse it
\* (`refused`); otherwise its result is `res` and it yields `out`.
IssueOut(s0, r, refused, res, out) ==
    Val({ IF Raised(s) THEN s
          ELSE LET bad == refused \/ Len(s.calls) + 1 = s.o.failAt
                   e == r @@ [result |-> IF bad THEN "raise" ELSE res,
                              out |-> IF bad THEN "-" ELSE out]
               IN  [s EXCEPT !.calls = Append(@, e),
                             !.exc = IF bad THEN [type |-> "CloudError", at |-> r.api]
                                     ELSE @]
        : s \in {s0} })

Issue(s0, r, refused) == IssueOut(s0, r, refused, "ok", "-")

\* A call on an SDK client that sends nothing: the operation returns a pager
\* that requests its first page only when it is iterated.
Lazy(s0, r) ==
    Val({ IF Raised(s) THEN s
          ELSE [s EXCEPT !.calls = Append(@, r @@ [result |-> "pager", out |-> "-"])]
        : s \in {s0} })

MaxResults == 5      \* maxresults=5
Min(a, b) == IF a <= b THEN a ELSE b

\* list(pager): the pager is drained.  The first request carries maxresults,
\* the size of a page; while the service returns a next link the pager
\* requests the next page.  `items` is what the service holds, in its order.
RECURSIVE FetchPages(_, _, _, _)
FetchPages(s0, r, items, from) ==
    Val({ IF Raised(s) THEN s
          ELSE Val({ IF Raised(s1) THEN s1
                     ELSE IF from + MaxResults > Len(items)
                     THEN [s1 EXCEPT !.listed = items]
                     ELSE FetchPages(s1, [r EXCEPT !.arg = "nextLink"], items,
                                     from + MaxResults)
                   : s1 \in {IssueOut(s, r, FALSE, "ok",
                                      SubSeq(items, from,
                                             Min(from + MaxResults - 1, Len(items))))} })
        : s \in {s0} })

VaultUrl(v) == v.name      \* vault.properties.vault_uri, one per vault name

\* ------------------------------------------------------------------ util.py

\* KeyVaultSampleBase.mgmt_client_creds: the service-principal credentials,
\* created (a token request) on first use and kept on the configuration.
mgmt_client_creds(s0, i) ==
    Val({ IF Raised(s) \/ s.cfg[s.inst[i].config].mgmt_client_creds THEN s
          ELSE Val({ IF Raised(s1) THEN s1
                     ELSE [s1 EXCEPT !.cfg[s.inst[i].config].mgmt_client_creds = TRUE]
                   : s1 \in {Issue(s, Req("ServicePrincipalCredentials", "sp", "-", "-", "-"),
                                   FALSE)} })
        : s \in {s0} })

\* One request of setup_sample through the resource management client.
Perform(s0, a) ==
    Val({ IF Raised(s) THEN s
          ELSE [Issue(s, Req(a, "sp", "-", "-", "-"), FALSE) EXCEPT !.performed[a] = @ + 1]
        : s \in {s0} })

\* setup_sample, the branch `if not _setup_complete`.
RunSetup(s0, i) ==
    Val({ IF Raised(s4) THEN s4 ELSE [s4 EXCEPT !.setup_complete = TRUE]
        : s4 \in {Perform(Perform(Perform(
                    mgmt_client_creds(
                        [s0 EXCEPT !.cfg[s0.inst[i].config].auth_context = TRUE], i),
                    "register:Microsoft.KeyVault"),
                    "register:Microsoft.Storage"),
                    "resource_groups.create_or_update")} })

\* A plausible slip: the flag is not consulted.
setup_sample_unguarded(s0, i) ==
    Val({ IF Raised(s) THEN s ELSE RunSetup(s, i) : s \in {s0} })

\* KeyVaultSampleBase.setup_sample
setup_sample(s0, i) ==
    Val({ IF Raised(s) \/ s.setup_complete THEN s ELSE RunSetup(s, i) : s \in {s0} })

\* KeyVaultSampleBase.sample_vault_url
sample_vault_url(s, i) ==
    IF s.cfg[s.inst[i].config].vault # NoVault
    THEN VaultUrl(s.cfg[s.inst[i].config].vault)
    ELSE None

\* The management request of get_sample_vault: vaults.get of the configured
\* vault, or create_or_update of a vault with a generated name and one access
\* policy for the service principal.  Stores the Vault object it returns.
FetchVault(s, i) ==
    LET c == s.inst[i].config
        named == s.env.vault_name # None
        vname == IF named THEN s.env.vault_name ELSE "kvrand"
        api == IF named THEN "vaults.get" ELSE "vaults.create_or_update"
        refused == named /\ ~s.vaults[vname].exists
        pol == IF named THEN s.vaults[vname].access_policies
               ELSE <<Policy(ClientOid, AllPerms)>>
        vault == [id |-> s.nextRef, name |-> vname, access_policies |-> pol]
    IN  Val({ IF Raised(s2) THEN s2
              ELSE [s2 EXCEPT !.vaults[vname] = [exists |-> TRUE, access_policies |-> pol],
                              !.nextRef = @ + 1,
                              !.cfg[c].vault = vault,
                              !.ret = [kind |-> "vault", id |-> vault.id, user |-> None]]
            : s2 \in {Issue(mgmt_client_creds(s, i), Req(api, "sp", "-", vname, "-"),
                            refused)} })

\* A plausible slip: the stored reference is not consulted.
get_sample_vault_unguarded(s0, i) ==
    Val({ IF Raised(s) THEN s ELSE FetchVault(s, i) : s \in {s0} })

\* KeyVaultSampleBase.get_sample_vault
get_sample_vault(s0, i) ==
    Val({ IF Raised(s) THEN s
          ELSE IF s.cfg[s.inst[i].config].vault # NoVault
          THEN [s EXCEPT !.ret = [kind |-> "vault",
                                  id |-> s.cfg[s.inst[i].config].vault.id,
                                  user |-> None]]
          ELSE FetchVault(s, i)
        : s \in {s0} })

\* grant_access_to_sample_vault from the append on: the entry is appended to
\* the Vault object, then the vault is persisted with the list of the object.
\* The operation answers with a new Vault object, which the method returns.
AppendAndPersist(s0, i, entry) ==
    Val({ Val({ IF Raised(s2) THEN s2
                ELSE [s2 EXCEPT !.vaults[s.cfg[s.inst[i].config].vault.name] =
                                    [exists |-> TRUE,
                                     access_policies |->
                                         s.cfg[s.inst[i].config].vault.access_policies],
                                !.nextRef = @ + 1,
                                !.ret = [kind |-> "vault", id |-> s2.nextRef, user |-> None]]
              : s2 \in {Issue(s, Req("vaults.create_or_update", "sp", "-",
                                     s.cfg[s.inst[i].config].vault.name, entry), FALSE)} })
        : s \in {[s0 EXCEPT !.cfg[s0.inst[i].config].vault.access_policies =
                                Append(@, entry)]} })

\* A plausible slip: the vault is persisted with the list as it was fetched,
\* and the entry is appended afterwards.
grant_access_to_sample_vault_persist_first(s0, i, oid) ==
    Val({ IF Raised(s) THEN s
          ELSE IF s.cfg[s.inst[i].config].vault = NoVault
          THEN Raise(s, "AttributeError", "vault.properties")
          ELSE Val({ [s2 EXCEPT !.vaults[s.cfg[s.inst[i].config].vault.name].access_policies =
                                    IF Raised(s2) THEN @
                                    ELSE s.cfg[s.inst[i].config].vault.access_policies]
                   : s2 \in {AppendAndPersist(s, i, Policy(oid, AllPerms))} })
        : s \in {mgmt_client_creds(s0, i)} })

\* KeyVaultSampleBase.grant_access_to_sample_vault(vault, oid), called with the
\* Vault object the configuration holds.  Without one, `vault.properties`
\* raises.
grant_access_to_sample_vault(s0, i, oid) ==
    Val({ IF Raised(s) THEN s
          ELSE IF s.cfg[s.inst[i].config].vault = NoVault
          THEN Raise(s, "AttributeError", "vault.properties")
          ELSE AppendAndPersist(s, i, Policy(oid, AllPerms))
        : s \in {mgmt_client_creds(s0, i)} })

\* KeyVaultSampleBase.__init__
base_init(s0, i, c) ==
    Val({ setup_sample([s EXCEPT !.inst[i].config = c], i) : s \in {s0} })

\* ------------------------------------------------------------------ constructors
NoInst == [config |-> None, user_id |-> None, user_oid |-> None,
           storage_account_name |-> None]

\* SasDefinitionSample.__init__: the base constructor, then a KeyVaultClient
\* on service-principal credentials (a token request).
SasDefinitionSample_init(s0, i, c) ==
    Issue(base_init(s0, i, c), Req("ServicePrincipalCredentials", "sp", "-", "-", "-"), FALSE)

\* StorageAccountSample.__init__: builds the user-authenticated KeyVaultClient
\* in a local variable and clears the cached user identity.  It does not call
\* the base constructor.
StorageAccountSample_init(s0, i) ==
    Val({ [s EXCEPT !.inst[i].user_id = None, !.inst[i].user_oid = None] : s \in {s0} })

\* self.config of a StorageAccountSample
sa_config(s0, i, c) == Val({ [s EXCEPT !.inst[i].config = c] : s \in {s0} })

\* ------------------------------------------------------------------ storage_account_sample.py

\* Attributes of a StorageAccountSample that its base class provides.
sa_auth_context(s, i) == [s EXCEPT !.cfg[s.inst[i].config].auth_context = TRUE]
sa_vault(s, i) == s.cfg[s.inst[i].config].vault
sa_keyvault_client == "sp"
sa_keyvault_mgmt_client == "sp"
sa_authorization_mgmt_client == "sp"

XplatClient == "xplat"
Token(u) == [kind |-> "token", id |-> 0, user |-> u]

\* The two requests of the device-code login: the challenge, then the blocking
\* wait, which yields the token of the user who answered.
Challenge(s0, resource) ==
    Issue(s0, Req("acquire_user_code", XplatClient, resource, "-", "-"), FALSE)
WaitForUser(s0, resource) ==
    Val({ IssueOut(s, Req("acquire_token_with_device_code", XplatClient, resource, "-", "-"),
                   FALSE, "ok", s.o.user)
        : s \in {s0} })

\* A plausible slip: the identity of the authenticated user is not kept.
DeviceCode_forgets(s0, i, resource) ==
    Val({ IF Raised(s2) THEN s2 ELSE [s2 EXCEPT !.ret = Token(s2.o.user)]
        : s2 \in {WaitForUser(Challenge(s0, resource), resource)} })

\* A plausible slip: a failed device login is tried again.
DeviceCode_retries(s0, i, resource) ==
    Val({ Val({ IF Raised(s3) THEN s3
                ELSE [s3 EXCEPT !.inst[i].user_oid = OidOf(s3.o.user),
                                !.inst[i].user_id = s3.o.user,
                                !.ret = Token(s3.o.user)]
              : s3 \in {WaitForUser(IF Raised(s1)
                                    THEN Challenge([s1 EXCEPT !.exc = NoExc], resource)
                                    ELSE s1, resource)} })
        : s1 \in {Challenge(s0, resource)} })

\* get_user_token, the branch `if not token`: the device-code challenge, the
\* blocking wait for the user, and the caching of the user's identity.
DeviceCode(s0, i, resource) ==
    Val({ IF Raised(s2) THEN s2
          ELSE [s2 EXCEPT !.inst[i].user_oid = OidOf(s2.o.user),
                          !.inst[i].user_id = s2.o.user,
                          !.ret = Token(s2.o.user)]
        : s2 \in {WaitForUser(Challenge(s0, resource), resource)} })

\* The silent acquisition of get_user_token: acquire_token returns a token of
\* the cached user, or None, or raises.
Silent(s, resource, cached) ==
    IssueOut(s, Req("acquire_token", XplatClient, resource, cached, "-"), FALSE,
             IF s.o.silent = "token" THEN "ok" ELSE "none",
             IF s.o.silent = "token" THEN cached ELSE "-")

\* get_user_token up to `if not token`: the silent acquisition, made when a
\* user id is cached.
TrySilent(s, i, resource) ==
    IF s.inst[i].user_id # None
    THEN Silent(sa_auth_context(s, i), resource, s.inst[i].user_id)
    ELSE sa_auth_context(s, i)

\* A plausible slip: the user is prompted whatever the cache returned.
get_user_token_prompts(s0, i, resource) ==
    Val({ IF Raised(s) THEN s
          ELSE Val({ IF Raised(s1) THEN s1 ELSE DeviceCode(s1, i, resource)
                   : s1 \in {TrySilent(s, i, resource)} })
        : s \in {s0} })

\* StorageAccountSample.get_user_token
get_user_token(s0, i, resource) ==
    Val({ IF Raised(s) THEN s
          ELSE Val({ IF Raised(s1) THEN s1
                     ELSE IF s.inst[i].user_id # None /\ s.o.silent = "token"
                     THEN [s1 EXCEPT !.ret = Token(s.inst[i].user_id)]
                     ELSE DeviceCode(s1, i, resource)
                   : s1 \in {TrySilent(s, i, resource)} })
        : s \in {s0} })

\* A plausible slip: the poller of storage_accounts.create is not waited for,
\* so the step goes on while the account does not exist yet.
CreateAccount_unawaited(s0, i) ==
    Val({ IF Raised(s) THEN s
          ELSE IssueOut(s, Req("storage_accounts.create", "user", "-",
                               s.inst[i].storage_account_name, "-"), FALSE, "pending", "-")
        : s \in {s0} })

\* add_storage_account, create the storage account with the user's token.
CreateAccount(s0, i) ==
    Val({ IF Raised(s) THEN s
          ELSE Val({ IF Raised(s1) THEN s1
                     ELSE [s1 EXCEPT !.storage[s.inst[i].storage_account_name].exists = TRUE]
                   : s1 \in {Issue(s, Req("storage_accounts.create", "user", "-",
                                          s.inst[i].storage_account_name, "-"), FALSE)} })
        : s \in {s0} })

\* add_storage_account, look the role definition up; `[0]` of an empty list
\* raises IndexError.
FindRole(s0) ==
    Val({ IF Raised(s1) \/ s1.o.found THEN s1
          ELSE Raise(s1, "IndexError", "role_definitions.list")
        : s1 \in {Issue(s0, Req("role_definitions.list", sa_authorization_mgmt_client,
                                "-", "-", "-"), FALSE)} })

\* add_storage_account, look the role definition up and assign the role to
\* the Key Vault service on the new account.
AssignRole(s0, i) ==
    Val({ IF Raised(s) THEN s
          ELSE Val({ IF Raised(s2) THEN s2
                     ELSE [s2 EXCEPT !.storage[s.inst[i].storage_account_name].role = TRUE]
                   : s2 \in {Issue(FindRole(s),
                                   Req("role_assignments.create", sa_authorization_mgmt_client,
                                       "-", s.inst[i].storage_account_name, "-"), FALSE)} })
        : s \in {s0} })

\* add_storage_account, persist the vault with the policies of the Vault
\* object.
PersistVault(s0, i) ==
    Val({ Val({ IF Raised(s2) THEN s2
                ELSE [s2 EXCEPT !.vaults[sa_vault(s, i).name] =
                                    [exists |-> TRUE,
                                     access_policies |-> sa_vault(s, i).access_policies]]
              : s2 \in {Issue(s, Req("vaults.create_or_update", sa_keyvault_mgmt_client,
                                     "-", sa_vault(s, i).name, "-"), FALSE)} })
        : s \in {s0} })

\* A plausible slip: the policy is written for the service principal.
GrantUser_service_principal(s0, i) ==
    Val({ IF Raised(s) THEN s
          ELSE IF sa_vault(s, i) = NoVault THEN Raise(s, "AttributeError", "self.vault")
          ELSE PersistVault([s EXCEPT !.cfg[s.inst[i].config].vault.access_policies =
                                Append(@, Policy(ClientOid, "storage_set"))], i)
        : s \in {s0} })

\* add_storage_account, append the user's access policy to the Vault object
\* and persist the vault.
GrantUser(s0, i) ==
    Val({ IF Raised(s) THEN s
          ELSE IF sa_vault(s, i) = NoVault THEN Raise(s, "AttributeError", "self.vault")
          ELSE PersistVault([s EXCEPT !.cfg[s.inst[i].config].vault.access_policies =
                                Append(@, Policy(s.inst[i].user_oid, "storage_set"))], i)
        : s \in {s0} })

\* add_storage_account, the registration: `keyvault_user_client` is a local
\* variable of __init__ and no name of this scope, so the call raises NameError
\* before any request is made.
RegisterAccount(s0, i) ==
    Val({ IF Raised(s) THEN s ELSE Raise(s, "NameError", "keyvault_user_client")
        : s \in {s0} })

\* add_storage_account up to the creation of the account: the generated name
\* is stored and the user's token for the management API acquired.
NameAndToken(s0, i) ==
    Val({ [s2 EXCEPT !.ret = NoRet]
        : s2 \in {get_user_token([s0 EXCEPT !.inst[i].storage_account_name = s0.o.name],
                                 i, MgmtResource)} })

\* A plausible slip: the role is assigned before the account is created.
add_storage_account_role_first(s0, i) ==
    Val({ IF Raised(s) THEN s
          ELSE RegisterAccount(GrantUser(CreateAccount(AssignRole(NameAndToken(s, i), i), i), i), i)
        : s \in {s0} })

\* A plausible slip: a failed step deletes the account it created.
add_storage_account_with_cleanup(s0, i) ==
    Val({ IF Raised(s1) /\ s1.inst[i].storage_account_name # None
          THEN [s1 EXCEPT !.storage[s1.inst[i].storage_account_name].exists = FALSE]
          ELSE s1
        : s1 \in {RegisterAccount(GrantUser(AssignRole(CreateAccount(NameAndToken(s0, i), i),
                                                       i), i), i)} })

\* StorageAccountSample.add_storage_account (the decorated body)
add_storage_account(s0, i) ==
    Val({ IF Raised(s) THEN s
          ELSE RegisterAccount(GrantUser(AssignRole(CreateAccount(NameAndToken(s, i), i), i), i), i)
        : s \in {s0} })

\* The arguments every later step passes: the vault's URL and the name that
\* add_storage_account stored.  Either may be missing.
StepArgs(s, i) ==
    IF Raised(s) THEN s
    ELSE IF sa_vault(s, i) = NoVault THEN Raise(s, "AttributeError", "self.vault")
    ELSE IF s.inst[i].storage_account_name = None
         THEN Raise(s, "AttributeError", "self.storage_account_name")
    ELSE s

Registered(s, v, n) == s.managed[v][n].reg = "registered"

\* A request of the key vault client about the managed storage account of the
\* sample: refused unless the vault manages the account.
AccountRequest(s0, i, api, arg) ==
    Val({ IF Raised(a) THEN a
          ELSE Issue(a, Req(api, sa_keyvault_client, VaultUrl(sa_vault(a, i)),
                            a.inst[i].storage_account_name, arg),
                     ~Registered(a, sa_vault(a, i).name, a.inst[i].storage_account_name))
        : a \in {StepArgs(s0, i)} })

\* One update_storage_account request; `field` is the attribute it sets.
UpdateRequest(s0, i, field, value) ==
    Val({ IF Raised(s1) THEN s1
          ELSE CASE field = "active_key_name" ->
                      [s1 EXCEPT !.managed[sa_vault(s1, i).name]
                                          [s1.inst[i].storage_account_name]
                                          .active_key_name = value]
                 [] field = "auto_regenerate_key" ->
                      [s1 EXCEPT !.managed[sa_vault(s1, i).name]
                                          [s1.inst[i].storage_account_name]
                                          .auto_regenerate_key = value]
                 [] OTHER -> s1
        : s1 \in {AccountRequest(s0, i, "update_storage_account", field)} })

\* A plausible slip: the errors of the update requests are caught and dropped.
update_storage_account_quiet(s0, i) ==
    Val({ [s EXCEPT !.exc = NoExc]
        : s \in {UpdateRequest(UpdateRequest(UpdateRequest(s0, i, "active_key_name", "key2"),
                                             i, "regenration_period", "P60D"),
                               i, "auto_regenerate_key", FALSE)} })

\* StorageAccountSample.update_storage_account (the decorated body).  The
\* second request passes the period under the misspelt keyword
\* `regenration_period`, which is no attribute of the registration.
update_storage_account(s0, i) ==
    UpdateRequest(UpdateRequest(UpdateRequest(s0, i, "active_key_name", "key2"),
                                i, "regenration_period", "P60D"),
                  i, "auto_regenerate_key", FALSE)

\* One regenerate_storage_account_key request.
RegenerateRequest(s0, i, k) ==
    Val({ IF Raised(s1) THEN s1
          ELSE [s1 EXCEPT !.storage[s1.inst[i].storage_account_name][k] = @ + 1,
                          !.managed[sa_vault(s1, i).name]
                                   [s1.inst[i].storage_account_name].rotated = TRUE]
        : s1 \in {AccountRequest(s0, i, "regenerate_storage_account_key", k)} })

\* StorageAccountSample.rotate_storage_account_keys (the decorated body)
rotate_storage_account_keys(s0, i) ==
    RegenerateRequest(RegenerateRequest(s0, i, "key1"), i, "key2")

\* A plausible slip: the storage account is deleted along with its registration.
delete_storage_account_and_account(s0, i) ==
    Val({ IF Raised(s1) THEN s1
          ELSE [s1 EXCEPT !.managed[sa_vault(s1, i).name]
                                   [s1.inst[i].storage_account_name].reg = "deregistered",
                          !.storage[s1.inst[i].storage_account_name] =
                              [exists |-> FALSE, role |-> FALSE, key1 |-> 0, key2 |-> 0]]
        : s1 \in {AccountRequest(s0, i, "delete_storage_account", "-")} })

\* StorageAccountSample.delete_storage_account (the decorated body)
delete_storage_account(s0, i) ==
    Val({ IF Raised(s1) THEN s1
          ELSE [s1 EXCEPT !.managed[sa_vault(s1, i).name]
                                   [s1.inst[i].storage_account_name].reg = "deregistered"]
        : s1 \in {AccountRequest(s0, i, "delete_storage_account", "-")} })

\* The identifier of a managed storage account, and StorageAccountId(uri),
\* which parses it.
StorageAccountUri(v, n) == <<v, "storage", n>>
StorageAccountId(uri) == [vault |-> uri[1], name |-> uri[3]]

\* The storage accounts vault v manages, as the service lists them.
NameOrder == <<"sa1", "sa2">>
RECURSIVE ManagedFrom(_, _, _)
ManagedFrom(s, v, k) ==
    IF k > Len(NameOrder) THEN <<>>
    ELSE (IF Registered(s, v, NameOrder[k])
          THEN <<StorageAccountUri(v, NameOrder[k])>> ELSE <<>>)
         \o ManagedFrom(s, v, k + 1)
ManagedAccounts(s, v) == ManagedFrom(s, v, 1)

\* get_storage_accounts, the loop: for each listed item the identifier is
\* parsed and get_storage_accounts, the listing operation, is called again
\* with the parsed vault; the operation has no storage_account_name parameter
\* and takes the keyword as a request option.  Its pager is never iterated.
RECURSIVE RefetchAccounts(_, _, _)
RefetchAccounts(s0, i, k) ==
    Val({ IF Raised(s) \/ k > Len(s.listed) THEN s
          ELSE RefetchAccounts(
                   Lazy(s, Req("get_storage_accounts", sa_keyvault_client,
                               StorageAccountId(s.listed[k]).vault, "-",
                               <<"storage_account_name", StorageAccountId(s.listed[k]).name>>)),
                   i, k + 1)
        : s \in {s0} })

\* StorageAccountSample.get_storage_accounts (the decorated body)
get_storage_accounts(s0, i) ==
    Val({ IF Raised(s) THEN s
          ELSE IF sa_vault(s, i) = NoVault THEN Raise(s, "AttributeError", "self.vault")
          ELSE RefetchAccounts(
                   FetchPages(s, Req("get_storage_accounts", sa_keyvault_client,
                                     VaultUrl(sa_vault(s, i)), "-",
                                     <<"maxresults", MaxResults>>),
                              ManagedAccounts(s, sa_vault(s, i).name), 1),
                   i, 1)
        : s \in {s0} })

\* ------------------------------------------------------------------ sas_definition_sample.py

PlaceholderKey == "00000000"
\* SharedAccessSignature(account_name, account_key).generate_account(...): the
\* unsigned template, signed locally with `key`.
AccountSasTemplate(n, key) == [account |-> n, scope |-> "account", signed_with |-> key]
\* The token the vault issues for a definition when its secret is read.
IssuedToken(n, scope) == [account |-> n, scope |-> scope, signed_with |-> "account_key"]

\* The template of a container SAS: the container's URL carrying the token
\* generate_container_shared_access_signature made, signed locally with `key`.
ContainerSasTemplate(n, key) == [account |-> n, scope |-> "container", signed_with |-> key]

\* A SAS template signed by the sample itself: no request is sent.
Sign(s0, api, n, key, template) ==
    Val({ IF Raised(s) THEN s
          ELSE [s EXCEPT !.calls = Append(@, Req(api, "-", "-", n, key)
                                             @@ [result |-> "local", out |-> template])]
        : s \in {s0} })

\* The set_sas_definition request: the vault refuses a definition for an
\* account it does not manage, and no vault is addressed by the URL None.
SetSasDefinition(s0, cred, url, n, d, template, type) ==
    Val({ IF Raised(s) THEN s
          ELSE Val({ IF Raised(s1) THEN s1
                     ELSE [s1 EXCEPT !.sas_definitions =
                              {x \in @ : ~(x.vault = url /\ x.account = n /\ x.name = d)}
                              \cup {[vault |-> url, account |-> n, name |-> d,
                                     template_uri |-> template, sas_type |-> type]}]
                   : s1 \in {Issue(s, Req("set_sas_definition", cred, url, n, template),
                                   (url = None \/ ~Registered(s, url, n)) = TRUE)} })
        : s \in {s0} })

\* create_account_sas_definition, the template, signed with `key`, and the
\* set_sas_definition request.
SetAccountSasDefinitionWith(s0, i, key) ==
    Val({ IF Raised(s) THEN s
          \* generate_account concatenates the account name: None raises
          ELSE IF s.env.storage_account_name = None
          THEN Raise(s, "TypeError", "generate_account")
          ELSE SetSasDefinition(
                   Sign(s, "generate_account", s.env.storage_account_name, key,
                        AccountSasTemplate(s.env.storage_account_name, key)),
                   "sp", sample_vault_url(s, i), s.env.storage_account_name, "acctall",
                   AccountSasTemplate(s.env.storage_account_name, key), "account")
        : s \in {s0} })

\* A plausible slip: the template is signed with the key of the account.
SetAccountSasDefinition_real_key(s0, i) == SetAccountSasDefinitionWith(s0, i, "account_key")

SetAccountSasDefinition(s0, i) == SetAccountSasDefinitionWith(s0, i, PlaceholderKey)

\* The token: get_secret of the definition's secret returns a token the vault
\* has just issued, which the sample keeps in a local variable.
GetSasToken(s0, cred, url, n, d, scope) ==
    Val({ IF Raised(s) THEN s
          ELSE Val({ IF Raised(s1) THEN s1
                     ELSE [s1 EXCEPT !.token = s1.calls[Len(s1.calls)].out]
                   : s1 \in {IssueOut(s, Req("get_secret", cred, url, n, d),
                                      FALSE, "ok", IssuedToken(n, scope))} })
        : s \in {s0} })

\* A plausible slip: the template is used in place of the token.
GetAccountSasToken_template(s0, i) ==
    Val({ IF Raised(s1) THEN s1
          ELSE [s1 EXCEPT !.token = AccountSasTemplate(s1.env.storage_account_name,
                                                       PlaceholderKey)]
        : s1 \in {GetSasToken(s0, "sp", sample_vault_url(s0, i),
                              s0.env.storage_account_name, "acctall", "account")} })

\* create_account_sas_definition, the token of the definition.
GetAccountSasToken(s0, i) ==
    Val({ GetSasToken(s, "sp", sample_vault_url(s, i), s.env.storage_account_name,
                      "acctall", "account")
        : s \in {s0} })

\* Requests to the storage account n, made with the token the sample holds.
\* A blob is written only to a container that exists.
CreateContainer(s0, n) ==
    Val({ IF Raised(s) THEN s
          ELSE Val({ IF Raised(s1) THEN s1
                     ELSE [s1 EXCEPT !.containers[n].exists = TRUE]
                   : s1 \in {Issue(s, Req("create_container", s.token, "-", n,
                                          "blobcontainer"), FALSE)} })
        : s \in {s0} })
\* A plausible slip: the blob is written with the template of the definition.
CreateBlob_with_template(s0, n, blob) ==
    Val({ IF Raised(s) THEN s
          ELSE Val({ IF Raised(s1) THEN s1
                     ELSE [s1 EXCEPT !.containers[n].blobs = @ \cup {blob}]
                   : s1 \in {Issue(s, Req("create_blob_from_text",
                                          [s.token EXCEPT !.signed_with = PlaceholderKey],
                                          "-", n, blob),
                                   ~s.containers[n].exists)} })
        : s \in {s0} })
CreateBlob(s0, n, blob) ==
    Val({ IF Raised(s) THEN s
          ELSE Val({ IF Raised(s1) THEN s1
                     ELSE [s1 EXCEPT !.containers[n].blobs = @ \cup {blob}]
                   : s1 \in {Issue(s, Req("create_blob_from_text", s.token, "-", n, blob),
                                   ~s.containers[n].exists)} })
        : s \in {s0} })

\* SasDefinitionSample.create_account_sas_definition (the decorated body)
create_account_sas_definition(s0, i) ==
    Val({ CreateBlob(CreateContainer(GetAccountSasToken(SetAccountSasDefinition(s, i), i),
                                     s.env.storage_account_name),
                     s.env.storage_account_name, "blob1")
        : s \in {s0} })

\* The blobs of the container, as list_blobs returns them, and the loop that
\* deletes each.
BlobOrder == <<"blob1", "blob2">>
RECURSIVE BlobsFrom(_, _)
BlobsFrom(B, k) ==
    IF k > Len(BlobOrder) THEN <<>>
    ELSE (IF BlobOrder[k] \in B THEN <<BlobOrder[k]>> ELSE <<>>) \o BlobsFrom(B, k + 1)
ListBlobs(s0, n) ==
    Val({ IF Raised(s) THEN s
          ELSE Val({ IF Raised(s1) THEN s1
                     ELSE [s1 EXCEPT !.listed = s1.calls[Len(s1.calls)].out]
                   : s1 \in {IssueOut(s, Req("list_blobs", s.token, "-", n, "blobcontainer"),
                                      ~s.containers[n].exists, "ok",
                                      BlobsFrom(s.containers[n].blobs, 1))} })
        : s \in {s0} })
\* A plausible slip: the step deletes only the blob it wrote.
DeleteBlobs_only_own(s0, n, k) ==
    Val({ IF Raised(s) THEN s
          ELSE Val({ IF Raised(s1) THEN s1
                     ELSE [s1 EXCEPT !.containers[n].blobs = @ \ {"blob2"}]
                   : s1 \in {Issue(s, Req("delete_blob", s.token, "-", n, "blob2"),
                                   "blob2" \notin s.containers[n].blobs)} })
        : s \in {s0} })
RECURSIVE DeleteBlobs(_, _, _)
DeleteBlobs(s0, n, k) ==
    Val({ IF Raised(s) \/ k > Len(s.listed) THEN s
          ELSE Val({ DeleteBlobs(IF Raised(s1) THEN s1
                                 ELSE [s1 EXCEPT !.containers[n].blobs = @ \ {s.listed[k]}],
                                 n, k + 1)
                   : s1 \in {Issue(s, Req("delete_blob", s.token, "-", n, s.listed[k]),
                                   s.listed[k] \notin s.containers[n].blobs)} })
        : s \in {s0} })

\* create_blob_sas_defintion of either class from the template on: the
\* definition, the token, then blob2 written and every blob of the container
\* deleted.
BlobDefinitionAndBlobs(s0, cred, url, n, key) ==
    DeleteBlobs(
        ListBlobs(
            CreateBlob(
                GetSasToken(
                    SetSasDefinition(s0, cred, url, n, "blobcontall",
                                     ContainerSasTemplate(n, key), "service"),
                    cred, url, n, "blobcontall", "container"),
                n, "blob2"),
            n),
        n, 1)

\* SasDefinitionSample.create_blob_sas_defintion (the decorated body).
\* BlockBlobService refuses the account name None.
create_blob_sas_defintion(s0, i) ==
    Val({ IF Raised(s) THEN s
          ELSE IF s.env.storage_account_name = None
          THEN Raise(s, "ValueError", "BlockBlobService")
          ELSE BlobDefinitionAndBlobs(
                   Sign(s, "generate_container_shared_access_signature",
                        s.env.storage_account_name, PlaceholderKey,
                        ContainerSasTemplate(s.env.storage_account_name, PlaceholderKey)),
                   "sp", sample_vault_url(s, i), s.env.storage_account_name, PlaceholderKey)
        : s \in {s0} })

\* StorageAccountSample.create_account_sas_definition (the decorated body):
\* the first statement reads self.storage_account, which no statement of the
\* class assigns.
sa_storage_account == None
sa_create_account_sas_definition(s0, i) ==
    Val({ IF Raised(s) THEN s
          ELSE IF sa_storage_account = None
          THEN Raise(s, "AttributeError", "self.storage_account")
          ELSE SetSasDefinition(
                   Sign(s, "generate_account", sa_storage_account, PlaceholderKey,
                        AccountSasTemplate(sa_storage_account, PlaceholderKey)),
                   sa_keyvault_client, None, s.inst[i].storage_account_name, "acctall",
                   AccountSasTemplate(sa_storage_account, PlaceholderKey), "account")
        : s \in {s0} })

\* StorageAccountSample.create_blob_sas_defintion (the decorated body): the
\* template is signed, then the set_sas_definition statement reads
\* self.vault.propoerties, a misspelt attribute, and raises before its request.
sa_create_blob_sas_defintion(s0, i) ==
    Val({ IF Raised(s) THEN s
          ELSE IF s.inst[i].storage_account_name = None
          THEN Raise(s, "AttributeError", "self.storage_account_name")
          ELSE Raise(Sign(s, "generate_container_shared_access_signature",
                          s.inst[i].storage_account_name, PlaceholderKey,
                          ContainerSasTemplate(s.inst[i].storage_account_name,
                                               PlaceholderKey)),
                     "AttributeError", "self.vault.propoerties")
        : s \in {s0} })

\* The identifier of a SAS definition, and StorageSasDefinitionId(uri), which
\* parses it.
SasDefinitionUri(v, n, d) == <<v, "storage", n, "sas", d>>
StorageSasDefinitionId(uri) ==
    [vault |-> uri[1], account_name |-> uri[3], sas_definition |-> uri[5]]

\* The SAS definitions vault v holds for account n, as the service lists them.
DefinitionOrder == <<"acctall", "blobcontall", "def3", "def4", "def5", "def6", "def7", "def8">>
RECURSIVE DefinitionsFrom(_, _, _, _)
DefinitionsFrom(s, v, n, k) ==
    IF k > Len(DefinitionOrder) THEN <<>>
    ELSE (IF \E d \in s.sas_definitions :
                d.vault = v /\ d.account = n /\ d.name = DefinitionOrder[k]
          THEN <<SasDefinitionUri(v, n, DefinitionOrder[k])>> ELSE <<>>)
         \o DefinitionsFrom(s, v, n, k + 1)

\* get_sas_definitions, the loop: the identifier of each listed item is parsed
\* and the definition fetched by get_sas_definition.
RECURSIVE RefetchDefinitions(_, _, _)
RefetchDefinitions(s0, i, k) ==
    Val({ IF Raised(s) \/ k > Len(s.listed) THEN s
          ELSE LET id == StorageSasDefinitionId(s.listed[k])
                   held == {d \in s.sas_definitions :
                               /\ d.vault = id.vault /\ d.account = id.account_name
                               /\ d.name = id.sas_definition}
               IN  RefetchDefinitions(
                       IssueOut(s, Req("get_sas_definition", "sp", id.vault,
                                       id.account_name, id.sas_definition),
                                held = {}, "ok",
                                IF held = {} THEN "-"
                                ELSE [name |-> (CHOOSE d \in held : TRUE).name,
                                      template_uri |-> (CHOOSE d \in held : TRUE).template_uri]),
                       i, k + 1)
        : s \in {s0} })

\* SasDefinitionSample.get_sas_definitions (the decorated body).  The vault
\* refuses the listing for an account it does not manage, and no vault is
\* addressed by the URL None.
get_sas_definitions(s0, i) ==
    Val({ IF Raised(s) THEN s
          ELSE LET n == s.env.storage_account_name
                   url == sample_vault_url(s, i)
                   unknown == (url = None \/ n = None \/ ~Registered(s, url, n)) = TRUE
               IN  RefetchDefinitions(
                       IF unknown
                       THEN Issue(s, Req("get_sas_definitions", "sp", url, n,
                                         <<"maxresults", MaxResults>>), TRUE)
                       ELSE FetchPages(s, Req("get_sas_definitions", "sp", url, n,
                                              <<"maxresults", MaxResults>>),
                                       DefinitionsFrom(s, url, n, 1), 1),
                       i, 1)
        : s \in {s0} })

\* ------------------------------------------------------------------ the decorator

\* f(self): the decorated method's body.
RunBody(s, i, f) ==
    CASE f = "add_storage_account" -> add_storage_account(s, i)
      [] f = "update_storage_account" -> update_storage_account(s, i)
      [] f = "rotate_storage_account_keys" -> rotate_storage_account_keys(s, i)
      [] f = "delete_storage_account" -> delete_storage_account(s, i)
      [] f = "get_storage_accounts" -> get_storage_accounts(s, i)
      [] f = "create_account_sas_definition" ->
            IF SampleClass(i) = "SasDefinitionSample"
            THEN create_account_sas_definition(s, i)
            ELSE sa_create_account_sas_definition(s, i)
      [] f = "create_blob_sas_defintion" ->
            IF SampleClass(i) = "SasDefinitionSample"
            THEN create_blob_sas_defintion(s, i)
            ELSE sa_create_blob_sas_defintion(s, i)
      [] f = "get_sas_definitions" -> get_sas_definitions(s, i)

\* The body, with what the wrapper's caller can observe of it recorded.
Body(s0, i, f) ==
    Val({ IF Raised(s) THEN s
          ELSE Val({ [b EXCEPT !.bodyRuns = @ + 1, !.bodyExc = b.exc]
                   : b \in {RunBody(s, i, f)} })
        : s \in {s0} })

\* A plausible slip: the wrapper runs the body without setup_sample.
keyvaultsample_without_setup(s0, i, f) ==
    Val({ [s2 EXCEPT !.ret = NoRet]
        : s2 \in {Body(s0, i, f)} })

\* A plausible slip: the except clause does not re-raise.
keyvaultsample_swallows(s0, i, f) ==
    Val({ [s2 EXCEPT !.exc = NoExc, !.ret = NoRet]
        : s2 \in {Body(setup_sample(s0, i), i, f)} })

\* keyvaultsample(f).wrapper: setup_sample, then the body; an exception of
\* either is printed and raised again (`raise e`).  The wrapper returns None.
keyvaultsample(s0, i, f) ==
    Val({ [s2 EXCEPT !.ret = NoRet]
        : s2 \in {Body(setup_sample(s0, i), i, f)} })

\* ------------------------------------------------------------------ run_sample.py
\* config = SampleConfig(): a configuration with nothing created yet.
FreshConfig == [auth_context |-> FALSE, mgmt_client_creds |-> FALSE, vault |-> NoVault]

\* sa_sample = StorageAccountSample(config=config).  The constructor of the
\* class is `def __init__(self)`: it takes no config, and the call raises
\* TypeError before its body runs.
sa_init_takes_config == FALSE
RunConstructSa(s0, c) ==
    Val({ IF Raised(s) THEN s
          ELSE IF ~sa_init_takes_config
          THEN Raise(s, "TypeError", "StorageAccountSample.__init__")
          ELSE sa_config(StorageAccountSample_init([s EXCEPT !.inst["sa"] = NoInst], "sa"),
                         "sa", c)
        : s \in {s0} })

\* sas_sample = SasDefinitionSample(config=config)
RunConstructSas(s0, c) ==
    Val({ IF Raised(s) THEN s
          ELSE Val({ IF Raised(s1) THEN [s1 EXCEPT !.inst["sas"] = NoInst] ELSE s1
                   : s1 \in {SasDefinitionSample_init([s EXCEPT !.inst["sas"] = NoInst],
                                                      "sas", c)} })
        : s \in {s0} })

\* The eight calls of run_all_samples and the object each is made on.
RunOrder == <<"add_storage_account", "update_storage_account",
              "regenerate_storage_account_key", "get_storage_accounts",
              "create_account_sas_definition", "create_blob_sas_defintion",
              "get_sas_definitions", "delete_storage_account">>
RunObject(k) == IF k \in 5..7 THEN "sas" ELSE "sa"

\* The k-th call.  StorageAccountSample has no method
\* regenerate_storage_account_key (it defines rotate_storage_account_keys):
\* looking the attribute up raises AttributeError.
RunStep(s0, k) ==
    Val({ IF Raised(s) THEN s
          ELSE IF RunOrder[k] = "regenerate_storage_account_key"
          THEN Raise(s, "AttributeError", RunOrder[k])
          ELSE keyvaultsample([s EXCEPT !.started = Append(@, RunOrder[k])],
                              RunObject(k), RunOrder[k])
        : s \in {s0} })
RECURSIVE RunSteps(_, _)
RunSteps(s0, k) ==
    IF k > Len(RunOrder) THEN s0 ELSE RunSteps(RunStep(s0, k), k + 1)

\* run_all_samples()
run_all_samples(s0, c) ==
    Val({ RunSteps(RunConstructSas(RunConstructSa([s EXCEPT !.cfg[c] = FreshConfig], c), c), 1)
        : s \in {s0} })

\* ------------------------------------------------------------------ top level
MaxCallsPerOp == 13   \* most external requests one top-level call can issue

FailChoices == {0} \cup (IF fails < MaxFails THEN 1..MaxCallsPerOp ELSE {})
Oracle(f) == [failAt |-> f, silent |-> "token", user |-> "u1", name |-> "sa1",
              found |-> TRUE]

\* A constructor that raises leaves no object behind.
Construct(s0, i) ==
    \E s \in {s0} : Commit(IF Raised(s) THEN [s EXCEPT !.inst[i] = NoInst] ELSE s)

NewSasDefinitionSample(i, c) ==
    /\ SampleClass(i) = "SasDefinitionSample"
    /\ inst[i].config = None
    /\ \E f \in FailChoices :
          Construct(SasDefinitionSample_init(Cur(Oracle(f), "__init__", i, c), i, c), i)

NewStorageAccountSample(i, c) ==
    /\ SampleClass(i) = "StorageAccountSample"
    /\ inst[i].config = None
    /\ Construct(sa_config(StorageAccountSample_init(Cur(Oracle(0), "__init__", i, c), i), i, c), i)

CallGetSampleVault(i) ==
    /\ inst[i].config # None
    /\ \E f \in FailChoices :
          Commit(get_sample_vault(Cur(Oracle(f), "get_sample_vault", i, "-"), i))

\* grant_access_to_sample_vault called directly with the configuration's vault.
GrantAccess(i, oid) ==
    /\ inst[i].config # None
    /\ Len(cfg[inst[i].config].vault.access_policies) <= MaxGranted
    /\ \E f \in FailChoices :
          Commit(grant_access_to_sample_vault(
                     Cur(Oracle(f), "grant_access_to_sample_vault", i, oid), i, oid))

\* get_user_token called directly, as the user client's callback does.
CallGetUserToken(i) ==
    /\ SampleClass(i) = "StorageAccountSample"
    /\ inst[i].config # None
    /\ \E f \in FailChoices, r \in Resources, sl \in {"token", "none"}, u \in Users :
          Commit(get_user_token(Cur([Oracle(f) EXCEPT !.silent = sl, !.user = u],
                                    "get_user_token", i, r), i, r))

\* A decorated step of sample object i.
Step(i, f, o) == Commit(keyvaultsample(Cur(o, f, i, "-"), i, f))

\* NS: the names get_name('sa', '') may return.
AddStorageAccount(i, NS) ==
    /\ SampleClass(i) = "StorageAccountSample"
    /\ inst[i].config # None
    /\ Len(cfg[inst[i].config].vault.access_policies) < MaxPolicies
    /\ \E f \in FailChoices, sl \in {"token", "none"}, u \in Users, n \in NS,
          fd \in BOOLEAN :
          Step(i, "add_storage_account",
               [failAt |-> f, silent |-> sl, user |-> u, name |-> n, found |-> fd])

UpdateStorageAccount(i) ==
    /\ SampleClass(i) = "StorageAccountSample"
    /\ inst[i].config # None
    /\ \E f \in FailChoices : Step(i, "update_storage_account", Oracle(f))

RotateStorageAccountKeys(i) ==
    /\ SampleClass(i) = "StorageAccountSample"
    /\ inst[i].config # None
    /\ \A n \in Names, k \in KeyNames : storage[n][k] < MaxKeyVersion
    /\ \E f \in FailChoices : Step(i, "rotate_storage_account_keys", Oracle(f))

DeleteStorageAccount(i) ==
    /\ SampleClass(i) = "StorageAccountSample"
    /\ inst[i].config # None
    /\ \E f \in FailChoices : Step(i, "delete_storage_account", Oracle(f))

GetStorageAccounts(i) ==
    /\ SampleClass(i) = "StorageAccountSample"
    /\ inst[i].config # None
    /\ \E f \in FailChoices : Step(i, "get_storage_accounts", Oracle(f))

CreateAccountSasDefinition(i) ==
    /\ SampleClass(i) = "SasDefinitionSample"
    /\ inst[i].config # None
    /\ \E f \in FailChoices : Step(i, "create_account_sas_definition", Oracle(f))

CreateBlobSasDefinition(i) ==
    /\ SampleClass(i) = "SasDefinitionSample"
    /\ inst[i].config # None
    /\ \E f \in FailChoices : Step(i, "create_blob_sas_defintion", Oracle(f))

\* The two SAS steps of a StorageAccountSample object.
SaCreateAccountSasDefinition(i) ==
    /\ SampleClass(i) = "StorageAccountSample"
    /\ inst[i].config # None
    /\ \E f \in FailChoices : Step(i, "create_account_sas_definition", Oracle(f))

SaCreateBlobSasDefinition(i) ==
    /\ SampleClass(i) = "StorageAccountSample"
    /\ inst[i].config # None
    /\ \E f \in FailChoices : Step(i, "create_blob_sas_defintion", Oracle(f))

GetSasDefinitions(i) ==
    /\ SampleClass(i) = "SasDefinitionSample"
    /\ inst[i].config # None
    /\ \E f \in FailChoices : Step(i, "get_sas_definitions", Oracle(f))

\* ------------------------------------------------------------------ behaviour
InitVaults(e) ==
    [v \in VaultNames |->
        IF v = e.vault_name
        THEN [exists |-> TRUE, access_policies |-> <<Policy(ClientOid, AllPerms)>>]
        ELSE [exists |-> FALSE, access_policies |-> <<>>]]

NoReg == [reg |-> "never", active_key_name |-> None, auto_regenerate_key |-> FALSE,
          regeneration_period |-> None, rotated |-> FALSE]
PreReg == [reg |-> "registered", active_key_name |-> "key1", auto_regenerate_key |-> TRUE,
           regeneration_period |-> "P30D", rotated |-> FALSE]
NoContainer == [exists |-> FALSE, blobs |-> {}]
NoAccount == [exists |-> FALSE, role |-> FALSE, key1 |-> 0, key2 |-> 0]

\* The environment the process starts in: nothing configured, or
\* AZURE_VAULT_NAME and AZURE_STORAGE_NAME naming an existing vault and a storage
\* account, which that vault may already manage.
InitExceptDefinitions ==
    /\ setup_complete = FALSE
    /\ cfg = [c \in Configs |-> [auth_context |-> FALSE, mgmt_client_creds |-> FALSE,
                                 vault |-> NoVault]]
    /\ inst = [i \in Insts |-> NoInst]
    /\ env \in {[vault_name |-> None, storage_account_name |-> None],
                 [vault_name |-> "kvnamed", storage_account_name |-> "sa1"]}
    /\ vaults = InitVaults(env)
    /\ \E pre \in BOOLEAN :
          LET on == pre /\ env.vault_name = "kvnamed" IN
          /\ managed = [v \in VaultNames |-> [n \in Names |->
                          IF on /\ v = "kvnamed" /\ n = "sa1" THEN PreReg ELSE NoReg]]
          /\ storage = [n \in Names |->
                          IF on /\ n = "sa1"
                          THEN [exists |-> TRUE, role |-> TRUE, key1 |-> 0, key2 |-> 0]
                          ELSE NoAccount]
    /\ containers = [n \in Names |-> NoContainer]
    /\ performed = [a \in SetupActions |-> 0]
    /\ nextRef = 1
    /\ fails = 0
    /\ op = [name |-> "-", inst |-> "-", arg |-> "-"]
    /\ calls = <<>>
    /\ exc = NoExc
    /\ ret = NoRet
    /\ bodyRuns = 0
    /\ bodyExc = NoExc
    /\ started = <<>>
    /\ threads = [t \in Threads |-> "start"]
    /\ overlapped = FALSE

Init == InitExceptDefinitions /\ sas_definitions = {}

\* The same start, with SAS definitions that the vault may already hold for
\* the storage account it manages: none, fewer than a page, or more.
OtherDefinitions(k) ==
    {[vault |-> "kvnamed", account |-> "sa1", name |-> DefinitionOrder[j],
      template_uri |-> AccountSasTemplate("sa1", PlaceholderKey), sas_type |-> "account"]
     : j \in 3..(2 + k)}
InitDefinitions ==
    /\ InitExceptDefinitions
    /\ sas_definitions \in
          IF managed["kvnamed"]["sa1"].reg = "registered"
          THEN {OtherDefinitions(k) : k \in {0, MaxResults - 2, MaxResults + 1}}
          ELSE {{}}

\* A process that uses SasDefinitionSample objects (sas_definition_sample.py
\* run as a script, generalised to any order of calls).
NextSas ==
    \/ \E i \in Insts, c \in Configs : NewSasDefinitionSample(i, c)
    \/ \E i \in Insts : CallGetSampleVault(i)
    \/ \E i \in Insts : CreateAccountSasDefinition(i)
    \/ \E i \in Insts : CreateBlobSasDefinition(i)

SpecSas == Init /\ [][NextSas]_vars

\* The same process, listing the SAS definitions of a vault that may hold
\* definitions of its own.
NextSasList ==
    \/ \E i \in Insts : NewSasDefinitionSample(i, "c1")
    \/ \E i \in Insts : CallGetSampleVault(i)
    \/ \E i \in Insts : CreateAccountSasDefinition(i)
    \/ \E i \in Insts : GetSasDefinitions(i)

SpecSasList == InitDefinitions /\ [][NextSasList]_vars

\* A process that uses a StorageAccountSample object (storage_account_sample.py
\* run as a script, generalised to any order of calls).
NextSa ==
    \/ \E i \in Insts : NewStorageAccountSample(i, "c1")
    \/ \E i \in Insts : CallGetSampleVault(i)
    \/ \E i \in Insts : AddStorageAccount(i, {"sa1"})
    \/ \E i \in Insts : UpdateStorageAccount(i)
    \/ \E i \in Insts : RotateStorageAccountKeys(i)
    \/ \E i \in Insts : DeleteStorageAccount(i)
    \/ \E i \in Insts : GetStorageAccounts(i)

SpecSa == Init /\ [][NextSa]_vars

\* A process that creates SAS definitions through objects of both classes.
NextSign ==
    \/ NewSasDefinitionSample("sas", "c1")
    \/ NewStorageAccountSample("sa", "c1")
    \/ CallGetSampleVault("sas")
    \/ AddStorageAccount("sa", {"sa1"})
    \/ CreateAccountSasDefinition("sas")
    \/ CreateBlobSasDefinition("sas")
    \/ SaCreateAccountSasDefinition("sa")
    \/ SaCreateBlobSasDefinition("sa")

SpecSign == Init /\ [][NextSign]_vars

\* A process that grants object ids access to the sample vault.
GrantOids == {"oid_u1", "oid_u2"}
NextGrant ==
    \/ \E i \in Insts, c \in Configs : NewSasDefinitionSample(i, c)
    \/ \E i \in Insts : CallGetSampleVault(i)
    \/ \E i \in Insts, oid \in GrantOids : GrantAccess(i, oid)

SpecGrant == Init /\ [][NextGrant]_vars

\* A process that uses one object of each class on one configuration, as
\* run_all_samples intends: the account is added through the one, the SAS
\* definitions are created and listed through the other.
NextNames ==
    \/ NewSasDefinitionSample("sas", "c1")
    \/ NewStorageAccountSample("sa", "c1")
    \/ CallGetSampleVault("sas")
    \/ AddStorageAccount("sa", Names)
    \/ CreateAccountSasDefinition("sas")
    \/ GetSasDefinitions("sas")

SpecNames == Init /\ [][NextNames]_vars

\* run_all_samples called with a configuration object of its own.
RunAllSamples ==
    \E c \in Configs :
        /\ \A i \in Insts : inst[i].config # c
        /\ \E f \in FailChoices :
              Commit(run_all_samples(Cur(Oracle(f), "run_all_samples", "-", c), c))

\* A process that calls run_all_samples, before or after using a
\* SasDefinitionSample object of its own.
NextRun ==
    \/ \E c \in Configs : NewSasDefinitionSample("sas", c)
    \/ CallGetSampleVault("sas")
    \/ CreateAccountSasDefinition("sas")
    \/ RunAllSamples

SpecRun == Init /\ [][NextRun]_vars

\* ------------------------------------------------------------------ threads
\* Two threads of one process, each constructing a sample object on the shared
\* configuration (KeyVaultSampleBase.__init__) and then calling
\* get_sample_vault.  A thread can be pre-empted between any two statements;
\* no external call fails.
ObjectOf(t) == IF t = "t1" THEN "sas" ELSE "sa"
SharedConfig == "c1"

\* One statement of thread t: its effect on the process and the cloud, and the
\* statement the thread is at next.
ThreadStep(t, s0, next) ==
    /\ Assign(s0)
    /\ threads' = [threads EXCEPT ![t] = next]

\* __init__: self.config = config.  The thread starts here.
ThreadInit(t) ==
    /\ threads[t] = "start"
    /\ ThreadStep(t, [Cur(Oracle(0), "__init__", ObjectOf(t), t)
                         EXCEPT !.inst[ObjectOf(t)].config = SharedConfig],
                  "setup_sample")
    /\ overlapped' = (overlapped \/ \E u \in Threads \ {t} : threads[u] \notin {"start", "done"})

\* A plausible slip: the flag is not consulted.
ThreadSetupCheck_unguarded(t) ==
    /\ threads[t] = "setup_sample"
    /\ ThreadStep(t, Cur(Oracle(0), "setup_sample", ObjectOf(t), t), "auth_context")
    /\ UNCHANGED overlapped

\* setup_sample: if not KeyVaultSampleBase._setup_complete
ThreadSetupCheck(t) ==
    /\ threads[t] = "setup_sample"
    /\ ThreadStep(t, Cur(Oracle(0), "setup_sample", ObjectOf(t), t),
                  IF setup_complete THEN "get_sample_vault" ELSE "auth_context")
    /\ UNCHANGED overlapped

\* setup_sample: self.config.auth_context = adal.AuthenticationContext(...)
ThreadSetupAuth(t) ==
    /\ threads[t] = "auth_context"
    /\ ThreadStep(t, [Cur(Oracle(0), "setup_sample", ObjectOf(t), t)
                         EXCEPT !.cfg[SharedConfig].auth_context = TRUE],
                  "mgmt_client_creds")
    /\ UNCHANGED overlapped

\* setup_sample: ResourceManagementClient(self.mgmt_client_creds, ...)
ThreadSetupCreds(t) ==
    /\ threads[t] = "mgmt_client_creds"
    /\ ThreadStep(t, mgmt_client_creds(Cur(Oracle(0), "setup_sample", ObjectOf(t), t),
                                       ObjectOf(t)),
                  "register:Microsoft.KeyVault")
    /\ UNCHANGED overlapped

\* setup_sample: the two provider registrations and the resource group.
AfterSetupAction(a) ==
    CASE a = "register:Microsoft.KeyVault" -> "register:Microsoft.Storage"
      [] a = "register:Microsoft.Storage" -> "resource_groups.create_or_update"
      [] a = "resource_groups.create_or_update" -> "set_flag"
ThreadSetupRequest(t) ==
    /\ threads[t] \in SetupActions
    /\ ThreadStep(t, Perform(Cur(Oracle(0), "setup_sample", ObjectOf(t), t), threads[t]),
                  AfterSetupAction(threads[t]))
    /\ UNCHANGED overlapped

\* setup_sample: KeyVaultSampleBase._setup_complete = True
ThreadSetupFlag(t) ==
    /\ threads[t] = "set_flag"
    /\ ThreadStep(t, [Cur(Oracle(0), "setup_sample", ObjectOf(t), t)
                         EXCEPT !.setup_complete = TRUE],
                  "get_sample_vault")
    /\ UNCHANGED overlapped

\* get_sample_vault: if not self.config.vault
ThreadVaultCheck(t) ==
    /\ threads[t] = "get_sample_vault"
    /\ ThreadStep(t, Cur(Oracle(0), "get_sample_vault", ObjectOf(t), t),
                  IF cfg[SharedConfig].vault # NoVault THEN "done" ELSE "fetch_vault")
    /\ UNCHANGED overlapped

\* get_sample_vault: the branch that fetches or creates the vault and stores it.
ThreadVaultFetch(t) ==
    /\ threads[t] = "fetch_vault"
    /\ ThreadStep(t, FetchVault(Cur(Oracle(0), "get_sample_vault", ObjectOf(t), t),
                                ObjectOf(t)),
                  "done")
    /\ UNCHANGED overlapped

NextThreads ==
    \/ \E t \in Threads : ThreadInit(t)
    \/ \E t \in Threads : ThreadSetupCheck(t)
    \/ \E t \in Threads : ThreadSetupAuth(t)
    \/ \E t \in Threads : ThreadSetupCreds(t)
    \/ \E t \in Threads : ThreadSetupRequest(t)
    \/ \E t \in Threads : ThreadSetupFlag(t)
    \/ \E t \in Threads : ThreadVaultCheck(t)
    \/ \E t \in Threads : ThreadVaultFetch(t)

SpecThreads == Init /\ [][NextThreads]_vars

\* The device-code authenticator of a StorageAccountSample object on its own:
\* get_user_token called for any resource in any order.
NextAuth ==
    \/ \E i \in Insts : NewStorageAccountSample(i, "c1")
    \/ \E i \in Insts : CallGetUserToken(i)

SpecAuth == Init /\ [][NextAuth]_vars

\* ------------------------------------------------------------------ properties

AuthApis == {"acquire_token", "acquire_user_code", "acquire_token_with_device_code"}
VaultDataApis == {"set_sas_definition", "get_secret", "set_storage_account",
                  "update_storage_account", "regenerate_storage_account_key",
                  "delete_storage_account"}
Ok(cs, api) == {k \in 1..Len(cs) : cs[k].api = api /\ cs[k].result = "ok"}
Made(cs, api) == {k \in 1..Len(cs) : cs[k].api = api}

\* C1: get_sample_vault is memoised per configuration: when the configuration
\* already holds a Vault object, the call issues no request and returns that
\* very object; and the reference a configuration holds is never replaced by
\* another object.
C1_VaultMemoised ==
    [][ /\ \A c \in Configs :
              cfg[c].vault # NoVault => cfg'[c].vault.id = cfg[c].vault.id
        /\ \A i \in Insts :
              (/\ op'.name = "get_sample_vault" /\ op'.inst = i
               /\ inst[i].config # None
               /\ cfg[inst[i].config].vault # NoVault)
              => /\ calls' = <<>>
                 /\ exc' = NoExc
                 /\ ret' = [kind |-> "vault", id |-> cfg[inst[i].config].vault.id,
                            user |-> None]
                 /\ vaults' = vaults ]_vars

\* get_sample_vault was called on a configuration that held its vault.
C1_Witness ==
    /\ op.name = "get_sample_vault"
    /\ calls = <<>>
    /\ ret.kind = "vault"
    /\ ret.id = cfg[inst[op.inst].config].vault.id

\* C2: with no cached user identity, get_user_token makes no silent attempt:
\* its first request is the device-code challenge for the requested resource,
\* and when it returns a token, the user id and object id of that token are
\* cached on the object.
C2_FirstLoginIsDeviceCode ==
    [][ \A i \in Insts :
          (op'.name = "get_user_token" /\ op'.inst = i /\ inst[i].user_id = None)
          => /\ calls' # <<>>
             /\ calls'[1].api = "acquire_user_code"
             /\ calls'[1].url = op'.arg
             /\ Made(calls', "acquire_token") = {}
             /\ (ret'.kind = "token") = (exc' = NoExc)
             /\ ret'.kind = "token"
                => /\ Len(calls') = 2
                   /\ calls'[2].api = "acquire_token_with_device_code"
                   /\ calls'[2].url = op'.arg
                   /\ calls'[2].result = "ok"
                   /\ ret'.user = calls'[2].out
                   /\ inst'[i].user_id = calls'[2].out
                   /\ inst'[i].user_oid = OidOf(calls'[2].out)
             /\ ret'.kind # "token"
                => inst'[i].user_id = None /\ inst'[i].user_oid = None ]_vars

\* A first login by device code succeeded and left the identity cached.
C2_Witness ==
    /\ op.name = "get_user_token"
    /\ Len(calls) = 2
    /\ calls[1].api = "acquire_user_code"
    /\ ret.kind = "token"
    /\ inst[op.inst].user_id = ret.user

\* C3: with a cached user identity, get_user_token first asks the token cache
\* for a token of the cached user; the device-code challenge is issued only
\* when that silent acquisition returned no token, and is issued then.
C3_SilentFirst ==
    [][ \A i \in Insts :
          (op'.name = "get_user_token" /\ op'.inst = i /\ inst[i].user_id # None)
          => /\ calls' # <<>>
             /\ calls'[1].api = "acquire_token"
             /\ calls'[1].name = inst[i].user_id
             /\ calls'[1].url = op'.arg
             /\ Made(calls', "acquire_user_code") # {} => calls'[1].result = "none"
             /\ calls'[1].result = "ok"
                => /\ Len(calls') = 1
                   /\ ret' = Token(inst[i].user_id)
                   /\ inst'[i] = inst[i]
             /\ calls'[1].result = "none"
                => Len(calls') >= 2 /\ calls'[2].api = "acquire_user_code"
             /\ calls'[1].result = "raise"
                => Len(calls') = 1 /\ exc'.type = "CloudError" ]_vars

\* The silent acquisition returned no token and the device-code login followed.
C3_Witness ==
    /\ op.name = "get_user_token"
    /\ Len(calls) = 3
    /\ calls[1].api = "acquire_token"
    /\ calls[1].result = "none"
    /\ calls[2].api = "acquire_user_code"
    /\ ret.kind = "token"

\* C4: an authentication request that fails inside get_user_token ends the
\* sample step that asked for the token: at most one device-code challenge is
\* issued per call, the failing request is the step's last, its exception
\* reaches the caller, the cached identity is unchanged and nothing is
\* created or changed in the cloud.
C4_AuthFailurePropagates ==
    [][ \A i \in Insts :
          (op'.name = "add_storage_account" /\ op'.inst = i)
          => /\ Cardinality(Made(calls', "acquire_user_code")) <= 1
             /\ \A k \in 1..Len(calls') :
                  (calls'[k].api \in AuthApis /\ calls'[k].result = "raise")
                  => /\ k = Len(calls')
                     /\ exc' = [type |-> "CloudError", at |-> calls'[k].api]
                     /\ inst'[i].user_id = inst[i].user_id
                     /\ inst'[i].user_oid = inst[i].user_oid
                     /\ storage' = storage
                     /\ vaults' = vaults
                     /\ managed' = managed ]_vars

\* The blocking wait of a device-code login failed on an object that had an
\* identity cached.
C4_Witness ==
    /\ op.name = "add_storage_account"
    /\ calls # <<>>
    /\ calls[Len(calls)].api = "acquire_token_with_device_code"
    /\ calls[Len(calls)].result = "raise"
    /\ exc.type = "CloudError"
    /\ inst[op.inst].user_id # None

\* C5: the wrapper of a decorated step runs the body at most once, raises to
\* its caller exactly the exception the body raised, and undoes nothing: what
\* the requests that succeeded before the exception created is still there.
C5_WrapperReraises ==
    op.name = "create_account_sas_definition"
    => /\ bodyRuns <= 1
       /\ bodyRuns = 1 => exc = bodyExc
       /\ bodyRuns = 0 => exc # NoExc
       /\ \A k \in Ok(calls, "set_sas_definition") :
             \E d \in sas_definitions :
                /\ d.vault = calls[k].url /\ d.account = calls[k].name
                /\ d.template_uri = calls[k].arg
       /\ \A k \in Ok(calls, "create_container") : containers[calls[k].name].exists
       /\ \A k \in Ok(calls, "create_blob_from_text") :
             calls[k].arg \in containers[calls[k].name].blobs

\* The body raised after it had created the SAS definition.
C5_Witness ==
    /\ op.name = "create_account_sas_definition"
    /\ bodyRuns = 1
    /\ bodyExc = [type |-> "CloudError", at |-> "get_secret"]
    /\ exc = bodyExc
    /\ Ok(calls, "set_sas_definition") # {}
    /\ sas_definitions # {}

\* C6 as stated: over the whole process each setup action (the two provider
\* registrations and the resource-group create-or-update) is performed at
\* most once, whichever calls fail.
C6_SetupActionsAtMostOnce == \A a \in SetupActions : performed[a] <= 1

\* C6, amended: a setup action is performed only while the setup-complete flag
\* is unset, at most once per call, and more than once over the process only
\* after as many failed calls; the flag, once set, stays set.
C6_SetupOnceCompleted ==
    [][ /\ setup_complete => setup_complete'
        /\ \A a \in SetupActions :
              /\ performed'[a] <= performed[a] + 1
              /\ setup_complete => performed'[a] = performed[a]
              /\ performed'[a] <= 1 + fails' ]_vars

\* Setup completed at the second attempt, after the first failed partway.
C6_Witness ==
    /\ setup_complete
    /\ performed["register:Microsoft.KeyVault"] = 2
    /\ performed["resource_groups.create_or_update"] = 1

\* C7: every request to the vault's data plane addresses the sample vault:
\* by the time it is issued the configuration holds the Vault object, and the
\* request carries its URL.
C7_VaultBeforeDataPlane ==
    \A k \in 1..Len(calls) :
        calls[k].api \in VaultDataApis
        => /\ cfg[inst[op.inst].config].vault # NoVault
           /\ calls[k].url = VaultUrl(cfg[inst[op.inst].config].vault)

StorageRank(v, n) ==
    CASE managed[v][n].reg = "deregistered" -> 4
      [] managed[v][n].reg = "registered" -> 3
      [] storage[n].role -> 2
      [] storage[n].exists -> 1
      [] OTHER -> 0

C9_RegisteredViaUserClient ==
    /\ \A k \in Made(calls, "set_storage_account") : calls[k].cred = "user"
    /\ (op.name = "add_storage_account" /\ Ok(calls, "vaults.create_or_update") # {})
       => /\ Made(calls, "set_storage_account") # {}
          /\ exc.type # "NameError"

\* C10: a key regeneration is requested under the user's credentials and
\* rotates exactly the key it names: the version of each key the step
\* regenerated advances by one, and no other key changes.
C10_RegenerateAsUser ==
    [][ /\ \A k \in Made(calls', "regenerate_storage_account_key") :
              calls'[k].cred = "user"
        /\ op'.name = "rotate_storage_account_keys"
           => \A n \in Names, key \in KeyNames :
                 storage'[n][key] = storage[n][key] +
                     Cardinality({k \in Ok(calls', "regenerate_storage_account_key") :
                                     calls'[k].name = n /\ calls'[k].arg = key}) ]_vars

\* The vault of sample object i manages the storage account the object names.
Manages(i) ==
    /\ inst[i].config # None
    /\ cfg[inst[i].config].vault # NoVault
    /\ inst[i].storage_account_name # None
    /\ managed[cfg[inst[i].config].vault.name][inst[i].storage_account_name].reg
          = "registered"

C12_DeleteOnlyDeregisters ==
    [][ \A i \in Insts :
          (op'.name = "delete_storage_account" /\ op'.inst = i /\ exc' = NoExc)
          => /\ Manages(i)
             /\ \A v \in VaultNames, n \in Names :
                   IF /\ v = cfg[inst[i].config].vault.name
                      /\ n = inst[i].storage_account_name
                   THEN /\ managed'[v][n].reg = "deregistered"
                        /\ [managed'[v][n] EXCEPT !.reg = "registered"] = managed[v][n]
                   ELSE managed'[v][n] = managed[v][n]
             /\ storage' = storage
             /\ vaults' = vaults
             /\ cfg' = cfg ]_vars

\* A registered account was deregistered and still exists with its role.
C12_Witness ==
    /\ op.name = "delete_storage_account"
    /\ exc = NoExc
    /\ Ok(calls, "delete_storage_account") # {}
    /\ managed[calls[Len(calls)].url][calls[Len(calls)].name].reg = "deregistered"
    /\ storage[calls[Len(calls)].name].exists
    /\ storage[calls[Len(calls)].name].role

\* The items of the pages that requests of `api` returned, in order.
RECURSIVE Listed(_, _, _)
Listed(cs, api, k) ==
    IF k > Len(cs) THEN <<>>
    ELSE (IF cs[k].api = api /\ cs[k].result = "ok" THEN cs[k].out ELSE <<>>)
         \o Listed(cs, api, k + 1)

\* C13: get_storage_accounts lists at most 5 registrations and then fetches
\* each listed account once by itself: one get_storage_account request per
\* listed identifier, addressed by the vault and account name parsed from the
\* identifier, returning the details of the account of that name.
C13_ListThenFetchAccounts ==
    (op.name = "get_storage_accounts" /\ exc = NoExc)
    => LET items == Listed(calls, "get_storage_accounts", 1) IN
       /\ Len(items) <= MaxResults
       /\ Cardinality(Made(calls, "get_storage_account")) = Len(items)
       /\ \A j \in 1..Len(items) :
             \E k \in Ok(calls, "get_storage_account") :
                /\ calls[k].url = StorageAccountId(items[j]).vault
                /\ calls[k].name = StorageAccountId(items[j]).name
                /\ calls[k].out = StorageAccountId(items[j]).name

\* C14: get_sas_definitions lists at most 5 SAS definitions of the storage
\* account and then fetches each listed definition once: one
\* get_sas_definition request per listed identifier, addressed by the vault,
\* account name and definition name parsed from it, returning the definition
\* of that name.
C14_ListThenFetchDefinitions ==
    (op.name = "get_sas_definitions" /\ exc = NoExc)
    => LET items == Listed(calls, "get_sas_definitions", 1) IN
       /\ Len(items) <= MaxResults
       /\ Cardinality(Made(calls, "get_sas_definition")) = Len(items)
       /\ \A j \in 1..Len(items) :
             \E k \in Ok(calls, "get_sas_definition") :
                /\ calls[k].url = StorageSasDefinitionId(items[j]).vault
                /\ calls[k].name = StorageSasDefinitionId(items[j]).account_name
                /\ calls[k].arg = StorageSasDefinitionId(items[j]).sas_definition
                /\ calls[k].out.name = StorageSasDefinitionId(items[j]).sas_definition

\* The second half of C14 alone: every listed definition is fetched once by
\* its parsed identifier.
C14_EachListedIsFetched ==
    (op.name = "get_sas_definitions" /\ exc = NoExc)
    => LET items == Listed(calls, "get_sas_definitions", 1) IN
       /\ Cardinality(Made(calls, "get_sas_definition")) = Len(items)
       /\ \A j \in 1..Len(items) :
             \E k \in Ok(calls, "get_sas_definition") :
                /\ calls[k].url = StorageSasDefinitionId(items[j]).vault
                /\ calls[k].name = StorageSasDefinitionId(items[j]).account_name
                /\ calls[k].arg = StorageSasDefinitionId(items[j]).sas_definition
                /\ calls[k].out.name = StorageSasDefinitionId(items[j]).sas_definition

\* C15: in every SAS-definition creation, of either kind and in either class,
\* the key that signs the template locally is the placeholder: every template
\* signed, every template sent to the vault and every template the vault holds
\* is signed with it.
SignApis == {"generate_account", "generate_container_shared_access_signature"}
C15_PlaceholderKeyOnly ==
    /\ \A k \in 1..Len(calls) :
          /\ calls[k].api \in SignApis =>
                calls[k].arg = PlaceholderKey /\ calls[k].out.signed_with = PlaceholderKey
          /\ calls[k].api = "set_sas_definition" =>
                calls[k].arg.signed_with = PlaceholderKey
    /\ \A d \in sas_definitions : d.template_uri.signed_with = PlaceholderKey
C15_Witness ==
    /\ {d.name : d \in sas_definitions} = {"acctall", "blobcontall"}
    /\ op.name = "create_blob_sas_defintion" /\ op.inst = "sa"
    /\ \E k \in 1..Len(calls) : calls[k].api \in SignApis

\* C16: in create_account_sas_definition the token read from the definition's
\* secret differs from the template registered as template_uri, and it is the
\* token, not the template, that the step goes on to use.
StorageApis == {"create_container", "create_blob_from_text", "list_blobs", "delete_blob"}
C17_KeyNeverHeld ==
    \A k \in 1..Len(calls) :
        /\ calls[k].api \in SignApis => calls[k].arg # "account_key"
        /\ calls[k].api = "set_sas_definition" => calls[k].out = "-"
        /\ calls[k].api \notin StorageApis => calls[k].cred # "account_key"
        /\ calls[k].api \in StorageApis =>
              \E h \in Ok(calls, "set_sas_definition"), j \in Ok(calls, "get_secret") :
                  /\ h < j /\ j < k
                  /\ calls[j].name = calls[h].name /\ calls[j].url = calls[h].url
                  /\ calls[k].cred = calls[j].out
                  /\ calls[k].cred # calls[h].arg
C17_Witness ==
    /\ op.name = "create_blob_sas_defintion"
    /\ Ok(calls, "create_blob_from_text") # {}
    /\ Ok(calls, "delete_blob") # {}
    /\ exc = NoExc

\* C18: when add_storage_account fails after it created the storage account,
\* the error propagates, the failing call is the last call of the step, and
\* what the step had done stays: the account, the role assignment if it was
\* made, the access policy if it was persisted.  Nothing is undone.
C18_HalfProvisionedStays ==
    (op.name = "add_storage_account" /\ Ok(calls, "storage_accounts.create") # {}) =>
        LET n == inst[op.inst].storage_account_name
            v == cfg[inst[op.inst].config].vault
        IN  /\ exc # NoExc
            /\ \A k \in 1..(Len(calls) - 1) : calls[k].result # "raise"
            /\ storage[n].exists
            /\ Ok(calls, "role_assignments.create") # {} => storage[n].role
            /\ Ok(calls, "vaults.create_or_update") # {} =>
                  /\ vaults[v.name].access_policies = v.access_policies
                  /\ \E k \in 1..Len(v.access_policies) :
                        v.access_policies[k] = Policy(inst[op.inst].user_oid, "storage_set")
C18_Witness ==
    /\ op.name = "add_storage_account"
    /\ Ok(calls, "storage_accounts.create") # {}
    /\ Ok(calls, "role_assignments.create") # {}
    /\ calls[Len(calls)].api = "vaults.create_or_update"
    /\ calls[Len(calls)].result = "raise"

\* C19 as the specification states it: when the persist call of
\* grant_access_to_sample_vault fails, the persisted policies are unchanged,
\* the Vault object holds the appended entry and the two lists differ; when it
\* succeeds, the persisted list gains exactly one entry and keeps the others.
GrantPersisted ==
    /\ op'.name = "grant_access_to_sample_vault"
    /\ calls' # <<>>
    /\ calls'[Len(calls')].api = "vaults.create_or_update"
GrantFailed == calls'[Len(calls')].result = "raise"
GrantEntry == Policy(op'.arg, AllPerms)
C19_GrantAddsOneEntry ==
    [][GrantPersisted =>
          LET c == inst[op'.inst].config
              v == cfg[c].vault.name
          IN  IF GrantFailed
              THEN /\ vaults' = vaults
                   /\ cfg'[c].vault.access_policies =
                         Append(cfg[c].vault.access_policies, GrantEntry)
                   /\ cfg'[c].vault.access_policies # vaults'[v].access_policies
              ELSE vaults'[v].access_policies =
                       Append(vaults[v].access_policies, GrantEntry)]_vars

\* C19, amended: the Vault object always gains exactly the new entry; a failed
\* persist leaves the persisted policies unchanged and a successful one makes
\* them equal to the list of the Vault object.  When the Vault object held the
\* persisted list before the call, the lists differ after a failure, and after
\* a success the persisted list has gained exactly the new entry.
C19_GrantPersistsObjectList ==
    [][GrantPersisted =>
          LET c == inst[op'.inst].config
              v == cfg[c].vault.name
              fresh == cfg[c].vault.access_policies = vaults[v].access_policies
          IN  /\ cfg'[c].vault.access_policies =
                    Append(cfg[c].vault.access_policies, GrantEntry)
              /\ IF GrantFailed
                 THEN /\ vaults' = vaults
                      /\ fresh => cfg'[c].vault.access_policies # vaults'[v].access_policies
                 ELSE /\ vaults'[v].access_policies = cfg'[c].vault.access_policies
                      /\ \A w \in VaultNames \ {v} : vaults'[w] = vaults[w]
                      /\ fresh => vaults'[v].access_policies =
                                      Append(vaults[v].access_policies, GrantEntry)]_vars
C19_Witness ==
    /\ op.name = "grant_access_to_sample_vault"
    /\ calls # <<>>
    /\ calls[Len(calls)].api = "vaults.create_or_update"
    /\ calls[Len(calls)].result = "raise"
    /\ LET w == cfg[inst[op.inst].config].vault
       IN  w.access_policies = Append(vaults[w.name].access_policies, Policy(op.arg, AllPerms))

\* C20: storage-account creation, vault creation and role assignment have
\* completed before the next call of the sample is made: none is left pending,
\* a call follows one of them only when it succeeded and its effect exists, and
\* the registration statement is reached only with the role assigned.
LroApis == {"storage_accounts.create", "vaults.create_or_update", "role_assignments.create"}
C21_OnceWhenSingleThreaded ==
    ~overlapped => (\A a \in SetupActions : performed[a] <= 1) /\ nextRef <= 2
C21_Witness ==
    /\ overlapped
    /\ env.vault_name = None
    /\ \A a \in SetupActions : performed[a] = 2
    /\ nextRef = 3
    /\ \A t \in Threads : threads[t] = "done"

\* C22 as the specification states it: when add_storage_account persists the
\* vault, the entry it wrote is for the object id the device-code login cached,
\* which is set, and grants secret and storage permissions; the registration
\* statement is reached only with that entry persisted.
UserEntries(policies, oid) ==
    {k \in 1..Len(policies) : policies[k].object_id = oid}
C22_GrantsSecretAndStorageSet ==
    (op.name = "add_storage_account" /\ Made(calls, "vaults.create_or_update") # {}) =>
        LET w == cfg[inst[op.inst].config].vault
            oid == inst[op.inst].user_oid
        IN  /\ oid # None
            /\ w.access_policies[Len(w.access_policies)].object_id = oid
            /\ {"secrets", "storage"} \subseteq
                   Areas(w.access_policies[Len(w.access_policies)].permissions)

\* C22, amended: the entry is for the cached object id, which is set, and
\* grants the storage set permission and nothing else; the registration
\* statement is reached only with that entry persisted.
C22_GrantsStorageSet ==
    /\ (op.name = "add_storage_account" /\ Made(calls, "vaults.create_or_update") # {}) =>
          LET w == cfg[inst[op.inst].config].vault
              oid == inst[op.inst].user_oid
          IN  /\ oid # None
              /\ oid = OidOf(inst[op.inst].user_id)
              /\ w.access_policies[Len(w.access_policies)] = Policy(oid, "storage_set")
              /\ Areas(w.access_policies[Len(w.access_policies)].permissions) = {"storage"}
    /\ (op.name = "add_storage_account"
        /\ (exc.at = "keyvault_user_client" \/ Made(calls, "set_storage_account") # {})) =>
          LET w == cfg[inst[op.inst].config].vault
          IN  /\ Ok(calls, "vaults.create_or_update") # {}
              /\ UserEntries(vaults[w.name].access_policies, inst[op.inst].user_oid) # {}
              /\ \A k \in UserEntries(vaults[w.name].access_policies, inst[op.inst].user_oid) :
                    vaults[w.name].access_policies[k].permissions = "storage_set"
C22_Witness ==
    /\ op.name = "add_storage_account"
    /\ exc.at = "keyvault_user_client"
    /\ inst[op.inst].user_oid = "oid_u2"
    /\ UserEntries(vaults[cfg[inst[op.inst].config].vault.name].access_policies, "oid_u2") # {}

\* C23: run_all_samples executes its eight steps in the fixed order, each
\* after the previous one returned; an exception ends the run; and when no
\* external call fails the run completes, delete_storage_account included.
C23_RunAllSamplesInOrder ==
    op.name = "run_all_samples" =>
        /\ Len(started) <= Len(RunOrder)
        /\ \A k \in 1..Len(started) : started[k] = RunOrder[k]
        /\ exc = NoExc => started = RunOrder
        /\ (\A k \in 1..Len(calls) : calls[k].result # "raise") =>
              exc = NoExc /\ started = RunOrder

\* C24: every call of a decorated step runs setup_sample before the body.  If
\* setup was not complete, its requests come first and the body runs only when
\* all of them succeeded; if setup raises, the body does not run and the
\* exception reaches the caller; once setup is complete the call makes no setup
\* request.
DecoratedSteps == {"add_storage_account", "update_storage_account",
                   "rotate_storage_account_keys", "get_storage_accounts",
                   "delete_storage_account", "create_account_sas_definition",
                   "create_blob_sas_defintion", "get_sas_definitions"}
C24_SetupBeforeBody ==
    [][op'.name \in DecoratedSteps =>
          /\ bodyRuns' <= 1
          /\ bodyRuns' = 1 => setup_complete'
          /\ setup_complete =>
                /\ performed' = performed
                /\ \A k \in 1..Len(calls') : calls'[k].api \notin SetupActions
                /\ bodyRuns' = 1
          /\ (~setup_complete /\ setup_complete') =>
                /\ \A a \in SetupActions : performed'[a] = performed[a] + 1
                /\ \A a \in SetupActions : \E k \in Ok(calls', a) : k <= 4
                /\ bodyRuns' = 1
          /\ (~setup_complete /\ ~setup_complete') =>
                /\ bodyRuns' = 0
                /\ exc' # NoExc
                /\ calls' # <<>>
                /\ calls'[Len(calls')].result = "raise"
                /\ calls'[Len(calls')].api \in SetupActions \cup {"ServicePrincipalCredentials"}]_vars
C24_Witness ==
    /\ op.name \in DecoratedSteps
    /\ ~setup_complete
    /\ bodyRuns = 0
    /\ exc.type = "CloudError"
    /\ calls[Len(calls)].api = "register:Microsoft.Storage"
    /\ performed["register:Microsoft.KeyVault"] = 1

\* C25: the storage account name under which the SAS steps register and list
\* definitions is the name of the account add_storage_account created.
SasSteps == {"create_account_sas_definition", "create_blob_sas_defintion",
             "get_sas_definitions"}
SasApis == {"set_sas_definition", "get_sas_definitions", "get_sas_definition"}
C25_SasNameIsCreatedName ==
    (/\ op.name \in SasSteps /\ op.inst = "sas" /\ bodyRuns = 1
     /\ inst["sa"].storage_account_name # None
     /\ storage[inst["sa"].storage_account_name].exists) =>
        /\ env.storage_account_name = inst["sa"].storage_account_name
        /\ \A k \in 1..Len(calls) :
              calls[k].api \in SasApis => calls[k].name = inst["sa"].storage_account_name

\* C26: create_blob_sas_defintion writes its blob only to a container that
\* exists, and the container exists only once create_account_sas_definition
\* has created it; when the step completes, every blob that was in the
\* container, blob1 and blob2 included, has been deleted and none is left.
C26_BlobStepEmptiesContainer ==
    [][/\ \A n \in Names :
             (containers'[n].exists /\ ~containers[n].exists) =>
                 op'.name = "create_account_sas_definition"
       /\ (op'.name = "create_blob_sas_defintion" /\ env.storage_account_name # None) =>
             LET n == env.storage_account_name
             IN  /\ Ok(calls', "create_blob_from_text") # {} => containers[n].exists
                 /\ exc' = NoExc =>
                       /\ containers'[n].exists
                       /\ containers'[n].blobs = {}
                       /\ {calls'[k].arg : k \in Ok(calls', "delete_blob")} =
                              containers[n].blobs \cup {"blob2"}]_vars
C26_Witness ==
    /\ op.name = "create_blob_sas_defintion"
    /\ exc = NoExc
    /\ {calls[k].arg : k \in Ok(calls, "delete_blob")} = {"blob1", "blob2"}
    /\ containers[env.storage_account_name].blobs = {}

\* C27: whenever the process-wide setup-complete flag is set, the
\* configuration of every existing sample object has an authentication
\* context, whichever configuration object each was constructed with.
C27_AuthContextWhenSetupComplete ==
    setup_complete =>
        \A i \in Insts : inst[i].config # None => cfg[inst[i].config].auth_context

====
